---- MODULE Spec2Model ----
(***************************************************************************)
(* A model of the caching proxy of src/index.js: the /proxy/* handler, its *)
(* in-memory cache (memCache), its file cache (readFileCache /             *)
(* writeFileCache) and the upstream fetch (forwardFetch).                  *)
(*                                                                         *)
(* Every request is handled by one instance of the async handler.  The     *)
(* handler runs synchronously between two awaits, so each action below is  *)
(* one such synchronous segment, or the effect of one file-system          *)
(* operation the handler awaits.  Time is a discrete clock (Date.now()).   *)
(***************************************************************************)
EXTENDS Integers, Sequences, FiniteSets, TLC

(***************************************************************************)
(* Bounds of the model.                                                    *)
(***************************************************************************)
\* the clock stops ticking at MaxTime
MaxTime == 2
\* requests accepted in one run
MaxReqs == 3
\* query parameters of a request in KeySpec
MaxParams == 3

(***************************************************************************)
(* Program constants, scaled: the clock counts seconds and the TTL (3600   *)
(* by default in the source) is 2 of them; the memory cache's maximum      *)
(* (1000 in the source) is 1, so that the trim can be reached.             *)
(***************************************************************************)
CACHE_TTL_SECONDS == 2
MEM_MAX == 1

\* Optional values: <<>> is absent (null / undefined / no such file), <<v>> is v.
None == << >>
Some(v) == << v >>

(***************************************************************************)
(* Requests.  incoming is req.params[0], the text after /proxy/, kept as   *)
(* its parts; query is the query string as its sequence of parameters.     *)
(***************************************************************************)
allowedHosts ==
    {"thumbnails.roblox.com", "assetdelivery.roblox.com", "catalog.roblox.com",
     "www.roblox.com", "images.rbxcdn.com", "rthumbnails.roblox.com"}

\* Hosts the WHATWG URL parser refuses (a forbidden host code point).
UnparsableHosts == {"a b"}

Param(n, v) == [name |-> n, value |-> v]

ReqA == [incoming |-> [scheme |-> "https", host |-> "thumbnails.roblox.com", path |-> "/v1/x"],
         query |-> << Param("userId", "1") >>]
ReqAKey == [incoming |-> ReqA.incoming,
            query |-> << Param("key", "s1"), Param("userId", "1") >>]
ReqB == [incoming |-> [scheme |-> "", host |-> "catalog.roblox.com", path |-> "/v1/y"],
         query |-> << >>]
ReqEvil == [incoming |-> [scheme |-> "https", host |-> "evil.example.com", path |-> "/v1/x"],
            query |-> << Param("userId", "1") >>]
ReqBad == [incoming |-> [scheme |-> "", host |-> "a b", path |-> ""], query |-> << >>]
ReqEmpty == [incoming |-> [scheme |-> "", host |-> "", path |-> ""], query |-> << >>]

Requests == {ReqA, ReqAKey, ReqB, ReqEvil, ReqBad, ReqEmpty}

\* The text of incoming.
IncomingText(inc) ==
    (IF inc.scheme = "" THEN "" ELSE inc.scheme \o "://") \o inc.host \o inc.path

(***************************************************************************)
(* new URL(text): the parse succeeds when the text has a scheme and a host *)
(* the parser accepts; the result is the hostname, or None for a throw.    *)
(***************************************************************************)
NewURL(scheme, host) ==
    IF scheme # "" /\ host # "" /\ host \notin UnparsableHosts
    THEN Some(host) ELSE None

\* target of the handler: new URL(incoming), else new URL('https://' + incoming).
ParseTarget(inc) ==
    IF NewURL(inc.scheme, inc.host) # None
    THEN NewURL(inc.scheme, inc.host)
    ELSE NewURL("https", inc.host)

\* A host validation that lets every host through.
allowedHostsIncludes_Always(hostname) == hostname = hostname

allowedHostsIncludes(hostname) == hostname \in allowedHosts

(***************************************************************************)
(* cacheKeyFromReq: pathname + search of req.originalUrl once every        *)
(* parameter named 'key' is deleted from its searchParams.                 *)
(***************************************************************************)
\* A delete that removes the first tuple named name only.
RECURSIVE SearchParamsDelete_FirstOnly(_, _)
SearchParamsDelete_FirstOnly(list, name) ==
    IF list = << >> THEN << >>
    ELSE IF Head(list).name = name
         THEN Tail(list)
         ELSE << Head(list) >> \o SearchParamsDelete_FirstOnly(Tail(list), name)

\* URLSearchParams.delete(name): removes every tuple whose name is name.
RECURSIVE SearchParamsDelete(_, _)
SearchParamsDelete(list, name) ==
    IF list = << >> THEN << >>
    ELSE IF Head(list).name = name
         THEN SearchParamsDelete(Tail(list), name)
         ELSE << Head(list) >> \o SearchParamsDelete(Tail(list), name)

\* The serialisation of a parameter list: name=value joined by '&'.
RECURSIVE SearchParamsSerialize(_)
SearchParamsSerialize(list) ==
    IF list = << >> THEN ""
    ELSE Head(list).name \o "=" \o Head(list).value
         \o (IF Tail(list) = << >> THEN "" ELSE "&" \o SearchParamsSerialize(Tail(list)))

\* url.search: empty for an empty query, else '?' and the serialisation.
UrlSearch(list) == IF list = << >> THEN "" ELSE "?" \o SearchParamsSerialize(list)

cacheKeyFromReq(req) ==
    "/proxy/" \o IncomingText(req.incoming)
              \o UrlSearch(SearchParamsDelete(req.query, "key"))

\* The cache keys of the requests that pass the host validation.
Keys == { cacheKeyFromReq(r) :
            r \in { q \in Requests :
                      /\ ParseTarget(q.incoming) # None
                      /\ allowedHostsIncludes(ParseTarget(q.incoming)[1]) } }

(***************************************************************************)
(* Upstream.  An upstream response has a status, headers and a body;       *)
(* forwardFetch keeps the headers of copyHeaders that have a value.        *)
(***************************************************************************)
copyHeaders == {"content-type", "content-length", "cache-control", "last-modified", "etag"}

UpstreamResponses ==
    { [status |-> 200, body |-> "abc",
       headers |-> {<<"content-type", "image/png">>, <<"server", "nginx">>}],
      [status |-> 200, body |-> "xyz",
       headers |-> {<<"content-type", "text/plain">>, <<"cache-control", "no-cache">>,
                    <<"etag", "">>}],
      [status |-> 404, body |-> "nf",
       headers |-> {<<"content-type", "text/plain">>}] }

\* What upstream may answer for the target of cache key k: any of the responses
\* for the target of ReqA, the first one alone for any other.
UpstreamFor(k) ==
    IF k = cacheKeyFromReq(ReqA) THEN UpstreamResponses
    ELSE { u \in UpstreamResponses : u.body = "abc" }

forwardFetch(res) ==
    [status |-> res.status,
     headers |-> { h \in res.headers : h[1] \in copyHeaders /\ h[2] # "" },
     buffer |-> res.body]

(***************************************************************************)
(* The memory cache: a Map, kept as its entries in insertion order.        *)
(***************************************************************************)
\* Date.now() + CACHE_TTL_SECONDS*1000, with the clock counting seconds.
Expiry(t) == t + CACHE_TTL_SECONDS

\* memCache.get(k): the entry, or absent.
MemGet(m, k) ==
    IF \E i \in 1..Len(m) : m[i].key = k
    THEN Some(m[CHOOSE i \in 1..Len(m) : m[i].key = k])
    ELSE None

\* memCache.set(k, e): an existing key keeps its place, a new one is appended.
MemSet(m, e) ==
    IF \E i \in 1..Len(m) : m[i].key = e.key
    THEN [i \in 1..Len(m) |-> IF m[i].key = e.key THEN e ELSE m[i]]
    ELSE Append(m, e)

\* The entry the handler puts: { expires, headers, buffer }; putAt, from and
\* first are history: when it was put, by the fetch path or by the warm of a
\* file hit, and the expiry the content was first cached with (for a warm, the
\* expiry of the metadata read from disk).
MemEntry(k, t, headers, buffer, from, first) ==
    [key |-> k, expires |-> Expiry(t), headers |-> headers, buffer |-> buffer,
     putAt |-> t, from |-> from, first |-> first]

\* A memory lookup's test with the comparison turned round.
MemFresh_Reversed(e, t) == e.expires < t

\* A memory lookup's test that still takes an entry at the instant it expires.
MemFresh_Inclusive(e, t) == e.expires >= t

\* The memory lookup's test: memEntry && memEntry.expires > now.
MemFresh(e, t) == e.expires > t

\* if (memCache.size > 1000) memCache.delete(memCache.keys().next().value)
Trim(m) == IF Len(m) > MEM_MAX THEN Tail(m) ELSE m

(***************************************************************************)
(* The file cache: per key a .json file (the metadata) and a .bin file     *)
(* (the body).  Each fs call (readFile, writeFile, unlink) takes effect at *)
(* one instant.                                                            *)
(***************************************************************************)
\* A meta that leaves the headers out.
MetaOf_NoHeaders(t, headers) == [expires |-> Expiry(t), headers |-> headers \ headers]

\* meta of writeFileCache: { expires: Date.now() + CACHE_TTL_SECONDS * 1000, headers }
MetaOf(t, headers) == [expires |-> Expiry(t), headers |-> headers]

NoFiles == [json |-> None, bin |-> None]

\* readFileCache's test of the metadata: meta.expires < now.
DiskExpired(meta, t) == meta.expires < t

(***************************************************************************)
(* Responses.                                                              *)
(***************************************************************************)
Response(status, headers, body) == [status |-> status, headers |-> headers, body |-> body]

DefaultCacheControl == <<"cache-control", "public, max-age=CACHE_TTL_SECONDS">>

\* The headers of the response to a 200 fetch: the fetched headers, and the
\* default cache-control when res.getHeader('cache-control') is not set.
WithDefaultCacheControl(headers) ==
    IF \E h \in headers : h[1] = "cache-control"
    THEN headers
    ELSE headers \cup {DefaultCacheControl}

\* A status test that takes every status for a 200.
IsCacheable_AnyStatus(status) == status >= 0

\* fetchResult.status === 200
IsCacheable(status) == status = 200

NoTargetResponse == Response(400, {}, "no target")
HostNotAllowedResponse == Response(403, {}, "host not allowed")
\* The handler's catch: res.status(500).json({ error: 'proxy error', ... })
ProxyErrorResponse == Response(500, {}, "proxy error")

(***************************************************************************)
(* State.                                                                  *)
(***************************************************************************)
\* The handler instances that may be in flight at the same time.
Slots == {1, 2}

VARIABLES
    now,        \* Date.now()
    nreq,       \* requests accepted so far (DiskSpec: calls of the file cache)
    memCache,   \* the memory cache, in insertion order
    disk,       \* FILE_CACHE_DIR: per key its .json and .bin file
    pc,         \* per handler instance: where it is
    loc,        \* per handler instance: ck, and the meta and buffer it holds
    resp,       \* per handler instance: the response it has just sent, if any
    gh,         \* history of the instance: its target, what it did, what it is owed
    last200,    \* history per key: the last 200 fetch (its time, its body and the
                \* headers of its response), while its TTL has not elapsed
    r1, r2, k1, k2  \* KeySpec: two requests and their cache keys

vars == << now, nreq, memCache, disk, pc, loc, resp, gh, last200,
           r1, r2, k1, k2 >>
keyVars == << r1, r2, k1, k2 >>
cacheVars == << memCache, disk >>

IdleLoc == [ck |-> "", meta |-> None, buffer |-> None]

\* The history of an instance:
\*   target  the kind of its target ("none", "malformed", "disallowed", "allowed");
\*   ops     what it did to the caches and to upstream, and until its
\*           readFileCache has returned: "rdfail" (a read threw), "expired" (the
\*           metadata had expired), "delfail" (an unlink failed), "raced" (a
\*           writeFileCache wrote a file of its key while it was unlinking);
\*   owed    the body of the last 200 fetch for its key, if the TTL of that
\*           fetch had not elapsed when the request arrived;
\*   kept    whether memCache then still held the entry that fetch stored;
\*   out     the fetchResult it got; threw: forwardFetch threw.
IdleGh == [target |-> "", ops |-> {}, owed |-> None, kept |-> FALSE,
           out |-> None, threw |-> FALSE]

\* The files a previous run of the process may have left: none, or an entry
\* for the key of ReqA, written one second before this run began.
LeftEntry ==
    [json |-> Some(MetaOf(-1, {<<"content-type", "image/png">>})), bin |-> Some("abc")]

LeftFiles(k) == IF k = cacheKeyFromReq(ReqA) THEN {NoFiles, LeftEntry} ELSE {NoFiles}

InitCache ==
    /\ now = 0
    /\ nreq = 0
    /\ memCache = << >>
    /\ disk \in { d \in [Keys -> {NoFiles, LeftEntry}] : \A k \in Keys : d[k] \in LeftFiles(k) }
    /\ pc = [s \in Slots |-> "idle"]
    /\ loc = [s \in Slots |-> IdleLoc]
    /\ resp = [s \in Slots |-> None]
    /\ gh = [s \in Slots |-> IdleGh]
    /\ last200 = [k \in Keys |-> None]

Init ==
    /\ InitCache
    /\ r1 = ReqEmpty /\ r2 = ReqEmpty /\ k1 = "" /\ k2 = ""

\* Nothing is being handed over: a response, or the null readFileCache returns,
\* is recorded with the history of its instance in the state that follows, and
\* Sent or CallFetch takes it up before anything else happens.
Quiet == \A s \in Slots : resp[s] = None /\ pc[s] # "rd_null"

\* What the instance has done so far, for the history.
Did(s, what) == [gh EXCEPT ![s].ops = @ \cup what]

(***************************************************************************)
(* The handler, app.get('/proxy/*').                                       *)
(***************************************************************************)
\* res.status(..).send(..): the instance's response.
Send(s, r) == resp' = [resp EXCEPT ![s] = Some(r)]

\* The kind of a request's target, for the history.
TargetKind(req) ==
    IF IncomingText(req.incoming) = "" THEN "none"
    ELSE IF ParseTarget(req.incoming) = None THEN "malformed"
    ELSE IF ParseTarget(req.incoming)[1] \in allowedHosts THEN "allowed"
    ELSE "disallowed"

\* Whether memCache holds the entry the last 200 fetch for k stored.
Kept(k) ==
    /\ last200[k] # None
    /\ MemGet(memCache, k) # None
    /\ MemGet(memCache, k)[1].from = "fetch"
    /\ MemGet(memCache, k)[1].putAt = last200[k][1].t

\* The request is answered before the cache is consulted.
Reject(s, req, r) ==
    /\ Send(s, r)
    /\ pc' = [pc EXCEPT ![s] = "done"]
    /\ gh' = [gh EXCEPT ![s].target = TargetKind(req)]
    /\ UNCHANGED << loc, cacheVars, last200 >>

\* Lines 133-144: the cache key, the memory lookup, and on a miss the call of
\* readFileCache, which starts reading the .json file.
Lookup(s, req) ==
    LET k == cacheKeyFromReq(req)
        memEntry == MemGet(memCache, k)
        seen == [gh[s] EXCEPT !.target = TargetKind(req), !.ops = {"memget"},
                     !.owed = IF last200[k] = None THEN None
                              ELSE Some(last200[k][1].buffer),
                     !.kept = Kept(k)]
    IN  /\ gh' = [gh EXCEPT ![s] = seen]
        /\ loc' = [loc EXCEPT ![s].ck = k]
        /\ IF memEntry # None /\ MemFresh(memEntry[1], now)
           THEN /\ Send(s, Response(200, memEntry[1].headers, memEntry[1].buffer))
                /\ pc' = [pc EXCEPT ![s] = "done"]
           ELSE /\ pc' = [pc EXCEPT ![s] = "rd_json"]
                /\ UNCHANGED resp
        /\ UNCHANGED << cacheVars, last200 >>

\* The arrivals the model follows: at most MaxReqs requests; a request for
\* ReqB arrives when no instance is in flight (requests for the other targets
\* arrive at any time, also while one for ReqB is in flight).
MayArrive(req) ==
    /\ nreq < MaxReqs
    /\ req = ReqB => \A t \in Slots : pc[t] = "idle"

\* Lines 115-144: a request arrives and runs up to its first await.  The
\* instances are interchangeable: the request takes the first idle slot.
Start(s, req) ==
    /\ Quiet
    /\ pc[s] = "idle"
    /\ \A t \in Slots : t < s => pc[t] # "idle"
    /\ MayArrive(req)
    /\ nreq' = nreq + 1
    /\ LET target == ParseTarget(req.incoming)
       IN  IF IncomingText(req.incoming) = "" THEN Reject(s, req, NoTargetResponse)
           ELSE IF target = None THEN Reject(s, req, ProxyErrorResponse)
           ELSE IF ~allowedHostsIncludes(target[1])
                THEN Reject(s, req, HostNotAllowedResponse)
           ELSE Lookup(s, req)
    /\ UNCHANGED << now, keyVars >>

\* A readFileCache without its catch: the failure reaches the handler's catch.
ReadReturnsNull_Throws(s) ==
    /\ Send(s, ProxyErrorResponse)
    /\ pc' = [pc EXCEPT ![s] = "done"]
    /\ loc' = [loc EXCEPT ![s].meta = None, ![s].buffer = None]

\* readFileCache returns null (its catch, or the expired branch).
ReadReturnsNull(s) ==
    /\ pc' = [pc EXCEPT ![s] = "rd_null"]
    /\ loc' = [loc EXCEPT ![s].meta = None, ![s].buffer = None]
    /\ UNCHANGED resp

\* What the history keeps of a readFileCache only until it has returned.
ReadFlags == {"rdfail", "expired", "delfail", "raced"}

\* Lines 144-153: fileEntry is null, so the handler calls forwardFetch.
CallFetch(s) ==
    /\ pc[s] = "rd_null"
    /\ pc' = [pc EXCEPT ![s] = "fetch"]
    /\ gh' = [gh EXCEPT ![s].ops = @ \ ReadFlags]
    /\ UNCHANGED << now, nreq, cacheVars, loc, resp, last200, keyVars >>

\* Line 52: fs.readFile(file + '.json') and JSON.parse.  A missing file, an I/O
\* error or metadata that does not parse throws, which readFileCache catches.
ReadJson(s) ==
    /\ Quiet
    /\ pc[s] = "rd_json"
    /\ \E ioerr \in BOOLEAN :
         LET f == disk[loc[s].ck].json
         IN  IF ioerr \/ f = None
             THEN /\ ReadReturnsNull(s)
                  /\ gh' = Did(s, {"diskread", "rdfail"})
             ELSE /\ pc' = [pc EXCEPT ![s] = "rd_check"]
                  /\ loc' = [loc EXCEPT ![s].meta = f]
                  /\ gh' = Did(s, {"diskread"})
                  /\ UNCHANGED resp
    /\ UNCHANGED << now, nreq, cacheVars, last200, keyVars >>

\* Lines 53-59: the expiry test of the metadata read, at the time the read
\* has resolved; then the first unlink or the read of the .bin file starts.
ReadCheck(s) ==
    /\ Quiet
    /\ pc[s] = "rd_check"
    /\ IF DiskExpired(loc[s].meta[1], now)
       THEN /\ pc' = [pc EXCEPT ![s] = "rd_unlink_json"]
            /\ loc' = [loc EXCEPT ![s].meta = None]
            /\ gh' = Did(s, {"expired"})
       ELSE /\ pc' = [pc EXCEPT ![s] = "rd_bin"]
            /\ UNCHANGED << loc, gh >>
    /\ UNCHANGED << now, nreq, cacheVars, resp, last200, keyVars >>

\* An unlink that removes the .json file whatever file it is given.
Unlink_JsonOnly(s, file, ioerr) ==
    disk' = IF ioerr THEN disk ELSE [disk EXCEPT ![loc[s].ck]["json"] = None]

\* fs.unlink(file).catch(()=>{}): the file is gone, or the unlink failed and
\* the failure is swallowed.
Unlink(s, file, ioerr) ==
    disk' = IF ioerr THEN disk ELSE [disk EXCEPT ![loc[s].ck][file] = None]

\* Line 55: await fs.unlink(file + '.json').catch(()=>{})
UnlinkJson(s) ==
    /\ Quiet
    /\ pc[s] = "rd_unlink_json"
    /\ \E ioerr \in BOOLEAN :
         /\ Unlink(s, "json", ioerr)
         /\ gh' = Did(s, IF ioerr THEN {"diskdel", "delfail"} ELSE {"diskdel"})
    /\ pc' = [pc EXCEPT ![s] = "rd_unlink_bin"]
    /\ UNCHANGED << now, nreq, memCache, loc, resp, last200, keyVars >>

\* Lines 56-57: await fs.unlink(file + '.bin').catch(()=>{}); return null
UnlinkBin(s) ==
    /\ Quiet
    /\ pc[s] = "rd_unlink_bin"
    /\ \E ioerr \in BOOLEAN :
         /\ Unlink(s, "bin", ioerr)
         /\ gh' = Did(s, IF ioerr THEN {"delfail"} ELSE {})
    /\ ReadReturnsNull(s)
    /\ UNCHANGED << now, nreq, memCache, last200, keyVars >>

\* Line 59: fs.readFile(file + '.bin').  A missing file or an I/O error throws.
ReadBin(s) ==
    /\ Quiet
    /\ pc[s] = "rd_bin"
    /\ \E ioerr \in BOOLEAN :
         LET f == disk[loc[s].ck].bin
         IN  IF ioerr \/ f = None
             THEN /\ ReadReturnsNull(s)
                  /\ gh' = Did(s, {"rdfail"})
             ELSE /\ pc' = [pc EXCEPT ![s] = "rd_hit"]
                  /\ loc' = [loc EXCEPT ![s].buffer = f]
                  /\ UNCHANGED << resp, gh >>
    /\ UNCHANGED << now, nreq, cacheVars, last200, keyVars >>

\* A file cache hit without its return: the handler goes on to forwardFetch.
DiskHit_FallsThrough(s) ==
    /\ Quiet
    /\ pc[s] = "rd_hit"
    /\ memCache' = MemSet(memCache, MemEntry(loc[s].ck, now, loc[s].meta[1].headers,
                                             loc[s].buffer[1], "warm",
                                             loc[s].meta[1].expires))
    /\ gh' = Did(s, {"memset"})
    /\ pc' = [pc EXCEPT ![s] = "fetch"]
    /\ loc' = [loc EXCEPT ![s].meta = None, ![s].buffer = None]
    /\ UNCHANGED << now, nreq, disk, resp, last200, keyVars >>

\* Lines 145-150: the file cache hit: warm the memory cache and answer.
DiskHit(s) ==
    /\ Quiet
    /\ pc[s] = "rd_hit"
    /\ LET k == loc[s].ck
           headers == loc[s].meta[1].headers
           buffer == loc[s].buffer[1]
       IN  /\ memCache' = MemSet(memCache, MemEntry(k, now, headers, buffer, "warm",
                                                  loc[s].meta[1].expires))
           /\ Send(s, Response(200, headers, buffer))
    /\ gh' = Did(s, {"memset"})
    /\ pc' = [pc EXCEPT ![s] = "done"]
    /\ loc' = [loc EXCEPT ![s].meta = None, ![s].buffer = None]
    /\ UNCHANGED << now, nreq, disk, last200, keyVars >>

\* A handler without its catch: the failure of forwardFetch is not answered.
OnFetchError_Uncaught(s) ==
    /\ pc' = [pc EXCEPT ![s] = "done"]
    /\ gh' = [Did(s, {"fetch"}) EXCEPT ![s].threw = TRUE]
    /\ UNCHANGED << resp, cacheVars, loc, last200 >>

\* Lines 182-185: forwardFetch threw; the handler's catch answers 500.
OnFetchError(s) ==
    /\ Send(s, ProxyErrorResponse)
    /\ pc' = [pc EXCEPT ![s] = "done"]
    /\ gh' = [Did(s, {"fetch"}) EXCEPT ![s].threw = TRUE]
    /\ UNCHANGED << cacheVars, loc, last200 >>

\* Lines 178-181: any other status is passed through and not cached.
OnFetchOther(s, fetchResult) ==
    /\ Send(s, Response(fetchResult.status, {}, fetchResult.buffer))
    /\ pc' = [pc EXCEPT ![s] = "done"]
    /\ gh' = [Did(s, {"fetch"}) EXCEPT ![s].out = Some(fetchResult)]
    /\ UNCHANGED << cacheVars, loc, last200 >>

\* A 200 branch that awaits writeFileCache before it answers: nothing is sent
\* when the fetch returns.
OnFetch200_AwaitsWrite(s, fetchResult) ==
    /\ memCache' = Trim(MemSet(memCache, MemEntry(loc[s].ck, now, fetchResult.headers,
                                                  fetchResult.buffer, "fetch",
                                                  Expiry(now))))
    /\ last200' = [last200 EXCEPT ![loc[s].ck] =
                     Some([t |-> now, buffer |-> fetchResult.buffer,
                           sent |-> WithDefaultCacheControl(fetchResult.headers)])]
    /\ loc' = [loc EXCEPT ![s].meta = Some(MetaOf(now, fetchResult.headers)),
                          ![s].buffer = Some(fetchResult.buffer)]
    /\ pc' = [pc EXCEPT ![s] = "wr_json"]
    /\ gh' = [Did(s, {"fetch", "memset"}) EXCEPT ![s].out = Some(fetchResult)]
    /\ UNCHANGED << disk, resp >>

\* Lines 156-177: a 200 is stored in the memory cache, the cache is trimmed,
\* writeFileCache is called and not awaited (it builds meta and starts
\* writing the .json file), and the response is sent.
OnFetch200(s, fetchResult) ==
    LET k == loc[s].ck
        entry == MemEntry(k, now, fetchResult.headers, fetchResult.buffer, "fetch",
                          Expiry(now))
        stored == MemSet(memCache, entry)
    IN  /\ memCache' = Trim(stored)
        /\ last200' = [last200 EXCEPT ![k] =
                         Some([t |-> now, buffer |-> fetchResult.buffer,
                               sent |-> WithDefaultCacheControl(fetchResult.headers)])]
        /\ loc' = [loc EXCEPT ![s].meta = Some(MetaOf(now, fetchResult.headers)),
                              ![s].buffer = Some(fetchResult.buffer)]
        /\ Send(s, Response(200, WithDefaultCacheControl(fetchResult.headers),
                            fetchResult.buffer))
        /\ pc' = [pc EXCEPT ![s] = "wr_json"]
        /\ gh' = [Did(s, {"fetch", "memset"}
                         \cup (IF Trim(stored) # stored THEN {"memdel"} ELSE {}))
                    EXCEPT ![s].out = Some(fetchResult)]
        /\ UNCHANGED disk

\* Lines 153-185: forwardFetch resolves or throws, and the handler finishes.
FetchReturn(s) ==
    /\ Quiet
    /\ pc[s] = "fetch"
    /\ \/ OnFetchError(s)
       \/ \E res \in UpstreamFor(loc[s].ck) :
            LET fetchResult == forwardFetch(res)
            IN  IF IsCacheable(fetchResult.status)
                THEN OnFetch200(s, fetchResult)
                ELSE OnFetchOther(s, fetchResult)
    /\ UNCHANGED << now, nreq, keyVars >>

\* The response has gone out.  An instance that answered from a cache, passed
\* a status through or rejected the request is over, and its slot takes the
\* next request; after a 200 fetch its writeFileCache runs on.
Sent(s) ==
    /\ resp[s] # None
    /\ resp' = [resp EXCEPT ![s] = None]
    /\ gh' = [gh EXCEPT ![s] = IdleGh]
    /\ IF pc[s] = "done"
       THEN /\ pc' = [pc EXCEPT ![s] = "idle"]
            /\ loc' = [loc EXCEPT ![s] = IdleLoc]
       ELSE UNCHANGED << pc, loc >>
    /\ UNCHANGED << now, nreq, cacheVars, last200, keyVars >>

(***************************************************************************)
(* writeFileCache, running on after the response was sent.                 *)
(***************************************************************************)
\* writeFileCache is over: its slot takes the next request.
WriteOver(s) ==
    /\ pc' = [pc EXCEPT ![s] = "idle"]
    /\ loc' = [loc EXCEPT ![s] = IdleLoc]

\* Lines 75-77: the catch of writeFileCache: warn, and nothing else.
WriteFailed(s) ==
    /\ WriteOver(s)
    /\ UNCHANGED << disk, resp, gh >>

\* fs.writeFile has written a file of the instance's key; for the history, an
\* instance that is unlinking the files of the same key has been raced.
Written(s, file, content) ==
    /\ disk' = [disk EXCEPT ![loc[s].ck][file] = content]
    /\ gh' = [t \in Slots |->
                IF /\ pc[t] \in {"rd_unlink_json", "rd_unlink_bin"}
                   /\ loc[t].ck = loc[s].ck
                THEN [gh[t] EXCEPT !.ops = @ \cup {"raced"}]
                ELSE gh[t]]

\* Line 73: await fs.writeFile(file + '.json', JSON.stringify(meta), 'utf8')
WriteJson(s) ==
    /\ Quiet
    /\ pc[s] = "wr_json"
    /\ \/ /\ Written(s, "json", loc[s].meta)
          /\ pc' = [pc EXCEPT ![s] = "wr_bin"]
          /\ UNCHANGED << loc, resp >>
       \/ WriteFailed(s)
    /\ UNCHANGED << now, nreq, memCache, last200, keyVars >>

\* Line 74: await fs.writeFile(file + '.bin', buffer)
WriteBin(s) ==
    /\ Quiet
    /\ pc[s] = "wr_bin"
    /\ \/ /\ Written(s, "bin", loc[s].buffer)
          /\ WriteOver(s)
          /\ UNCHANGED resp
       \/ WriteFailed(s)
    /\ UNCHANGED << now, nreq, memCache, last200, keyVars >>

\* Time passes.
Tick ==
    /\ Quiet
    /\ now < MaxTime
    /\ now' = now + 1
    /\ last200' = [k \in Keys |->
                     IF last200[k] # None /\ now' >= last200[k][1].t + CACHE_TTL_SECONDS
                     THEN None ELSE last200[k]]
    /\ UNCHANGED << nreq, cacheVars, pc, loc, resp, gh, keyVars >>

Next ==
    \/ \E s \in Slots, req \in Requests : Start(s, req)
    \/ \E s \in Slots : ReadJson(s)
    \/ \E s \in Slots : ReadCheck(s)
    \/ \E s \in Slots : UnlinkJson(s)
    \/ \E s \in Slots : UnlinkBin(s)
    \/ \E s \in Slots : ReadBin(s)
    \/ \E s \in Slots : DiskHit(s)
    \/ \E s \in Slots : CallFetch(s)
    \/ \E s \in Slots : FetchReturn(s)
    \/ \E s \in Slots : Sent(s)
    \/ \E s \in Slots : WriteJson(s)
    \/ \E s \in Slots : WriteBin(s)
    \/ Tick

Spec == Init /\ [][Next]_vars

(***************************************************************************)
(* KeySpec: cacheKeyFromReq applied to two requests drawn from every       *)
(* target of Requests and every query of at most MaxParams parameters.     *)
(***************************************************************************)
ParamNames == {"key", "userId"}
ParamValues == {"1", "2"}
Params == { Param(n, v) : n \in ParamNames, v \in ParamValues }

\* The sequences over S of length at most n.
RECURSIVE SeqsUpTo(_, _)
SeqsUpTo(S, n) ==
    IF n = 0 THEN { << >> }
    ELSE LET shorter == SeqsUpTo(S, n - 1)
         IN  shorter \cup { Append(q, x) : q \in shorter, x \in S }

KeyRequests ==
    { [incoming |-> i, query |-> q] :
        i \in {ReqA.incoming, ReqB.incoming}, q \in SeqsUpTo(Params, MaxParams) }

KeyInit ==
    /\ InitCache
    /\ r1 \in KeyRequests /\ r2 \in KeyRequests
    /\ k1 = "" /\ k2 = ""

\* The handler derives the key of each request (line 133).
DeriveKeys ==
    /\ k1 = ""
    /\ k1' = cacheKeyFromReq(r1)
    /\ k2' = cacheKeyFromReq(r2)
    /\ UNCHANGED << now, nreq, cacheVars, pc, loc, resp, gh, last200, r1, r2 >>

KeyNext == DeriveKeys

KeySpec == KeyInit /\ [][KeyNext]_vars

(***************************************************************************)
(* DiskSpec: the file cache used by one caller, with nothing else running: *)
(* writeFileCache(ck, headers, buffer) for the result of a 200 fetch, the  *)
(* same call again once the first is over, then readFileCache(ck).  Both   *)
(* writes run to completion; a read may fail; the clock ticks at any time. *)
(***************************************************************************)
\* The results of forwardFetch with status 200.
FetchResults200 ==
    { forwardFetch(u) : u \in { v \in UpstreamResponses : v.status = 200 } }

\* writeFileCache has just been called by instance 1 (line 175).
DiskInit ==
    /\ now = 0
    /\ nreq = 1
    /\ memCache = << >>
    /\ resp = [s \in Slots |-> None]
    /\ last200 = [k \in Keys |-> None]
    /\ pc = [s \in Slots |-> IF s = 1 THEN "wr_json" ELSE "idle"]
    /\ \E f \in FetchResults200, d \in LeftFiles(cacheKeyFromReq(ReqA)) :
         /\ disk = [k \in Keys |-> IF k = cacheKeyFromReq(ReqA) THEN d ELSE NoFiles]
         /\ loc = [s \in Slots |->
                     IF s = 1
                     THEN [ck |-> cacheKeyFromReq(ReqA),
                           meta |-> Some(MetaOf(now, f.headers)),
                           buffer |-> Some(f.buffer)]
                     ELSE IdleLoc]
         /\ gh = [s \in Slots |-> IF s = 1 THEN [IdleGh EXCEPT !.out = Some(f)] ELSE IdleGh]
    /\ r1 = ReqEmpty /\ r2 = ReqEmpty /\ k1 = "" /\ k2 = ""

\* Lines 66-71: writeFileCache is called again with the same key, headers and
\* buffer once the first call is over.
WriteAgain ==
    /\ pc[1] = "idle"
    /\ nreq = 1
    /\ nreq' = 2
    /\ pc' = [pc EXCEPT ![1] = "wr_json"]
    /\ loc' = [loc EXCEPT ![1] = [ck |-> cacheKeyFromReq(ReqA),
                                  meta |-> Some(MetaOf(now, gh[1].out[1].headers)),
                                  buffer |-> Some(gh[1].out[1].buffer)]]
    /\ UNCHANGED << now, cacheVars, resp, gh, last200, keyVars >>

\* Lines 49-52: readFileCache is called once the second write is over.
ReadBack ==
    /\ pc[1] = "idle"
    /\ nreq = 2
    /\ nreq' = 3
    /\ pc' = [pc EXCEPT ![1] = "rd_json"]
    /\ loc' = [loc EXCEPT ![1].ck = cacheKeyFromReq(ReqA)]
    /\ UNCHANGED << now, cacheVars, resp, gh, last200, keyVars >>

\* Line 73, the write succeeding.
WriteJsonDone == WriteJson(1) /\ pc'[1] = "wr_bin"

\* Line 74, the write succeeding.
WriteBinDone == WriteBin(1) /\ disk'[loc[1].ck].bin = loc[1].buffer

DiskNext ==
    \/ WriteJsonDone
    \/ WriteBinDone
    \/ WriteAgain
    \/ ReadBack
    \/ ReadJson(1)
    \/ ReadCheck(1)
    \/ ReadBin(1)
    \/ Tick

DiskSpec == DiskInit /\ [][DiskNext]_vars

(***************************************************************************)
(* The claims.  A response is observed in the state that follows its send: *)
(* there resp[s] is the response of instance s and gh[s] its history.      *)
(***************************************************************************)

\* C1: in every reachable state, after any sequence and interleaving of
\* requests (memory hits, warms of a file hit, inserts of a 200 fetch), the
\* memory cache holds at most its configured maximum of entries.
C1_MemCacheWithinMaximum == Len(memCache) <= MEM_MAX

\* C2, as stated: a request for K that arrives before the TTL has elapsed since
\* the last 200 fetch for K, with body B, is answered 200 with body B and
\* does not call forwardFetch.
C2_ServedFromCacheWithinTTL ==
    \A s \in Slots :
        (resp[s] # None /\ gh[s].owed # None) =>
            /\ resp[s][1].status = 200
            /\ resp[s][1].body = gh[s].owed[1]
            /\ "fetch" \notin gh[s].ops

\* C2, amended: a request for K that arrives before the TTL has elapsed since
\* the last 200 fetch for K, with body B, and while memCache still holds the
\* entry that fetch stored (not evicted by the trim, not overwritten), is
\* answered 200 with body B and does not call forwardFetch.
C2_ServedFromMemoryWhileKept ==
    \A s \in Slots :
        (resp[s] # None /\ gh[s].owed # None /\ gh[s].kept) =>
            /\ resp[s][1].status = 200
            /\ resp[s][1].body = gh[s].owed[1]
            /\ "fetch" \notin gh[s].ops

\* C2, witness: such a request, the third of a run, is answered at a later
\* time than the fetch.
C2_Witness ==
    \E s \in Slots :
        /\ resp[s] # None /\ gh[s].owed # None /\ gh[s].kept
        /\ last200[loc[s].ck] # None
        /\ last200[loc[s].ck][1].t < now
        /\ nreq = 3

\* C3, as stated: a request whose fetch returns a status other than 200 is
\* answered with the upstream status and body, and it changes neither the
\* memory cache nor the file cache.
C3_NonCacheableLeavesCachesUnchanged ==
    \A s \in Slots :
        (resp[s] # None /\ gh[s].out # None /\ gh[s].out[1].status # 200) =>
            /\ resp[s][1].status = gh[s].out[1].status
            /\ resp[s][1].body = gh[s].out[1].buffer
            /\ gh[s].ops \cap {"memset", "memdel", "diskdel"} = {}
            /\ pc[s] = "done"

\* C3, amended: a request whose fetch returns a status other than 200 is
\* answered with the upstream status and body and stores nothing in either
\* cache (no memCache.set, no trim, no writeFileCache); the one change it may
\* make is its readFileCache deleting the files of an expired entry.
C3_NonCacheableStoresNothing ==
    \A s \in Slots :
        (resp[s] # None /\ gh[s].out # None /\ gh[s].out[1].status # 200) =>
            /\ resp[s][1].status = gh[s].out[1].status
            /\ resp[s][1].body = gh[s].out[1].buffer
            /\ gh[s].ops \cap {"memset", "memdel"} = {}
            /\ pc[s] = "done"

\* C3, witness: a 404 is passed through while both caches hold an entry.
C3_Witness ==
    \E s \in Slots :
        /\ resp[s] # None /\ gh[s].out # None /\ gh[s].out[1].status = 404
        /\ memCache # << >>
        /\ \E k \in Keys : disk[k] # NoFiles

\* C4: a request whose target host is not in the allow-list is answered 403; on
\* its path there is no memory cache read or write, no file cache read, write
\* or delete and no fetch, and both caches are the same before and after it.
C4_DisallowedHostRejected ==
    /\ [](\A s \in Slots :
            (resp[s] # None /\ gh[s].target = "disallowed") =>
                /\ resp[s][1] = HostNotAllowedResponse
                /\ gh[s].ops = {}
                /\ pc[s] = "done")
    /\ [][\A s \in Slots :
            (pc[s] = "idle" /\ gh'[s].target = "disallowed") =>
                /\ resp'[s] # None
                /\ UNCHANGED cacheVars]_vars

\* C4, witness: a request for a disallowed host has been rejected while the
\* caches were not empty.
C4_Witness ==
    \E s \in Slots :
        /\ resp[s] # None /\ gh[s].target = "disallowed"
        /\ memCache # << >>
        /\ \E k \in Keys : disk[k] # NoFiles

\* C5: an entry put into the memory cache for K at time t0 and neither
\* overwritten nor evicted since is, for a lookup at time t1, a hit with the
\* entry's headers and body when t0 <= t1 < t0 + TTL, and a miss (the handler
\* goes on to readFileCache) when t1 >= t0 + TTL.
C5_MemoryLookupTTL ==
    [][\A s \in Slots :
        (pc[s] = "idle" /\ gh'[s].target = "allowed"
            /\ MemGet(memCache, loc'[s].ck) # None) =>
            LET e == MemGet(memCache, loc'[s].ck)[1]
            IN  /\ (e.putAt <= now /\ now < e.putAt + CACHE_TTL_SECONDS) =>
                      /\ resp'[s] = Some(Response(200, e.headers, e.buffer))
                      /\ gh'[s].ops = {"memget"}
                /\ now >= e.putAt + CACHE_TTL_SECONDS =>
                      /\ resp'[s] = None
                      /\ pc'[s] = "rd_json"]_vars

\* C5, witness: the third request of a run has missed on an entry that is
\* still in memCache and whose TTL had elapsed.
C5_Witness ==
    \E s \in Slots :
        /\ pc[s] = "rd_json"
        /\ MemGet(memCache, loc[s].ck) # None
        /\ now >= MemGet(memCache, loc[s].ck)[1].putAt + CACHE_TTL_SECONDS
        /\ nreq = 3

\* C6 (KeySpec): two requests with the same path and the same sequence of
\* query parameters, but for the values of the parameters named 'key', have
\* the same cache key, and the key is the path followed by the other
\* parameters in their original order.
C6_KeyIgnoresKeyValue ==
    LET same == /\ r1.incoming = r2.incoming
                /\ Len(r1.query) = Len(r2.query)
                /\ \A i \in 1..Len(r1.query) :
                     /\ r1.query[i].name = r2.query[i].name
                     /\ r1.query[i].name # "key" => r1.query[i].value = r2.query[i].value
        NotKey(p) == p.name # "key"
    IN  (k1 # "" /\ same) =>
            /\ k1 = k2
            /\ k1 = "/proxy/" \o IncomingText(r1.incoming)
                              \o UrlSearch(SelectSeq(r1.query, NotKey))

\* C6, witness: the keys are derived of two requests that differ in the value
\* of 'key' only, with 'key' standing between two other parameters.
C6_Witness ==
    /\ k1 # ""
    /\ r1.incoming = r2.incoming
    /\ Len(r1.query) = 3 /\ Len(r2.query) = 3
    /\ r1.query[1] = r2.query[1] /\ r1.query[3] = r2.query[3]
    /\ r1.query[1].name = "userId" /\ r1.query[3].name = "userId"
    /\ r1.query[1].value # r1.query[3].value
    /\ r1.query[2].name = "key" /\ r2.query[2].name = "key"
    /\ r1.query[2].value # r2.query[2].value

\* C7, as stated: once readFileCache has found expired metadata it deletes and
\* returns null, never a hit or an error, whether a deletion fails or not; and
\* when it has returned and no deletion failed, neither the .json nor the
\* .bin file of the key is on disk.
C7_ExpiredEntryGone ==
    \A s \in Slots :
        "expired" \in gh[s].ops =>
            /\ pc[s] \in {"rd_unlink_json", "rd_unlink_bin", "rd_null"}
            /\ resp[s] = None
            /\ pc[s] = "rd_null" =>
                 /\ loc[s].meta = None /\ loc[s].buffer = None
                 /\ "delfail" \notin gh[s].ops => disk[loc[s].ck] = NoFiles

\* C7, amended: the same, the files being gone when no deletion failed and no
\* writeFileCache wrote a file of the key while the deletions were under way.
C7_ExpiredEntryGoneUnlessRewritten ==
    \A s \in Slots :
        "expired" \in gh[s].ops =>
            /\ pc[s] \in {"rd_unlink_json", "rd_unlink_bin", "rd_null"}
            /\ resp[s] = None
            /\ pc[s] = "rd_null" =>
                 /\ loc[s].meta = None /\ loc[s].buffer = None
                 /\ ("delfail" \notin gh[s].ops /\ "raced" \notin gh[s].ops) =>
                      disk[loc[s].ck] = NoFiles

\* C7, witness: readFileCache has returned null for expired metadata, both
\* deletions done, while another instance is in flight.
C7_Witness ==
    \E s \in Slots :
        /\ pc[s] = "rd_null"
        /\ "expired" \in gh[s].ops
        /\ "delfail" \notin gh[s].ops /\ "raced" \notin gh[s].ops
        /\ disk[loc[s].ck] = NoFiles
        /\ \E t \in Slots : t # s /\ pc[t] # "idle"

\* C8: when forwardFetch throws, the handler answers 500 with the generic
\* error, the memory cache and the file cache are as they were before the
\* fetch, and the instance is over: its slot takes a later request.
C8_FetchFailureAnswered500 ==
    /\ [](\A s \in Slots :
            gh[s].threw =>
                /\ resp[s] # None
                /\ resp[s][1].status = 500
                /\ resp[s][1].body = "proxy error"
                /\ pc[s] = "done")
    /\ [][\A s \in Slots :
            /\ (~gh[s].threw /\ gh'[s].threw) => UNCHANGED cacheVars
            /\ gh[s].threw => (pc'[s] = "idle" /\ UNCHANGED cacheVars)]_vars

\* C8, witness: a failure of forwardFetch has been answered while both caches
\* held an entry.
C8_Witness ==
    \E s \in Slots :
        /\ gh[s].threw /\ resp[s] # None
        /\ memCache # << >>
        /\ \E k \in Keys : disk[k] # NoFiles

\* C9: a request whose target does not parse as a URL, even with 'https://'
\* put before it, is rejected with a status of the 4xx class before any
\* cache lookup or fetch.
C9_MalformedTargetRejected4xx ==
    \A s \in Slots :
        (resp[s] # None /\ gh[s].target = "malformed") =>
            /\ resp[s][1].status \in 400..499
            /\ gh[s].ops = {}

\* C10: a failure of readFileCache (a missing or unreadable .json or .bin
\* file) is a miss: no response is sent for it and the handler goes on to
\* forwardFetch; and writeFileCache, failing or not, sends nothing: the
\* response to a 200 fetch is the one sent when the fetch returned.
C10_DiskFailuresInvisible ==
    /\ [](\A s \in Slots :
            /\ "rdfail" \in gh[s].ops => (pc[s] = "rd_null" /\ resp[s] = None)
            /\ (resp[s] # None /\ pc[s] = "wr_json") =>
                 resp[s][1] = Response(200, WithDefaultCacheControl(gh[s].out[1].headers),
                                       gh[s].out[1].buffer))
    /\ [][\A s \in Slots :
            /\ pc[s] = "rd_null" => (pc'[s] = "fetch" /\ resp'[s] = None)
            /\ (pc[s] \in {"wr_json", "wr_bin"} /\ resp[s] = None) =>
                 /\ resp'[s] = None
                 /\ pc'[s] \in {"wr_json", "wr_bin", "idle"}]_vars

\* C10, witness: the read of a file that is on disk has failed and
\* readFileCache has returned null.
C10_Witness ==
    \E s \in Slots :
        /\ pc[s] = "rd_null"
        /\ "rdfail" \in gh[s].ops
        /\ disk[loc[s].ck].json # None
        /\ disk[loc[s].ck].bin # None

\* C11 (DiskSpec): the same (key, headers, body) written twice in sequence,
\* each write running to completion, leaves the .json file with those headers
\* and the .bin file with that body, and a readFileCache that follows returns
\* those headers and that body: within the TTL it goes on to read the .bin
\* file, what it returns as a hit is that entry, and it returns null only
\* when one of its reads has failed.
C11_SameWriteTwice ==
    /\ [](LET f == gh[1].out[1]
              ck == cacheKeyFromReq(ReqA)
          IN  /\ (nreq = 2 /\ pc[1] = "idle") =>
                    /\ disk[ck].json # None
                    /\ disk[ck].json[1].headers = f.headers
                    /\ disk[ck].bin = Some(f.buffer)
              /\ (nreq = 3 /\ pc[1] = "rd_hit") =>
                    /\ loc[1].meta[1].headers = f.headers
                    /\ loc[1].buffer = Some(f.buffer)
              /\ (nreq = 3 /\ pc[1] = "rd_null") => "rdfail" \in gh[1].ops)
    /\ [][(nreq = 3 /\ pc[1] = "rd_check" /\ now < loc[1].meta[1].expires)
            => pc'[1] \in {"rd_check", "rd_bin"}]_vars

\* C11, witness: the read has returned the entry, the second write having been
\* made later than the first, over files an earlier run had left.
C11_Witness ==
    /\ nreq = 3
    /\ pc[1] = "rd_hit"
    /\ loc[1].meta[1].expires > Expiry(0)
    /\ loc[1].buffer = Some("xyz")

\* C12: a request that passes the host validation consults memory, then disk,
\* then upstream, and the first hit wins: a memory hit reads no file and
\* fetches nothing, a file hit fetches nothing, and forwardFetch is called
\* only after the memory lookup and the file lookup of the request have missed.
C12_TiersInOrder ==
    /\ [](\A s \in Slots :
            /\ pc[s] = "fetch" =>
                 /\ gh[s].ops \in {{"memget", "diskread"}, {"memget", "diskread", "diskdel"}}
                 /\ loc[s].meta = None /\ loc[s].buffer = None
            /\ pc[s] = "rd_hit" => gh[s].ops = {"memget", "diskread"}
            /\ (resp[s] # None /\ gh[s].target = "allowed") =>
                 \/ gh[s].ops = {"memget"}
                 \/ gh[s].ops = {"memget", "diskread", "memset"}
                 \/ /\ {"memget", "diskread", "fetch"} \subseteq gh[s].ops
                    /\ gh[s].out # None \/ gh[s].threw)
    /\ [][\A s \in Slots :
            /\ (/\ pc[s] = "idle" /\ gh'[s].target = "allowed"
                /\ MemGet(memCache, loc'[s].ck) # None
                /\ MemGet(memCache, loc'[s].ck)[1].expires > now) =>
                  (resp'[s] # None /\ pc'[s] = "done" /\ gh'[s].ops = {"memget"})
            /\ (pc[s] = "rd_hit" /\ pc'[s] # "rd_hit") =>
                  (resp'[s] # None /\ pc'[s] = "done"
                     /\ gh'[s].ops = {"memget", "diskread", "memset"})]_vars

\* C12, witness: a request has been answered from upstream after its memory
\* lookup found an expired entry and its file lookup deleted an expired one.
C12_Witness ==
    \E s \in Slots :
        /\ resp[s] # None
        /\ {"memget", "diskread", "diskdel", "fetch"} \subseteq gh[s].ops
        /\ gh[s].out # None /\ gh[s].out[1].status = 404
        /\ MemGet(memCache, loc[s].ck) # None

\* C13: a cached response is never served at or after the expiry it was given
\* when it was first cached: the warm of a file hit installs the entry with
\* the expiry of the file entry, so that a memory hit answers only before the
\* expiry the content was first cached with.
C13_NeverServedAfterFirstExpiry ==
    \A s \in Slots :
        (resp[s] # None /\ gh[s].target = "allowed" /\ gh[s].ops = {"memget"}) =>
            now < MemGet(memCache, loc[s].ck)[1].first

\* C14: when the writes of two concurrent 200 fetches for one key have both
\* completed, the .json file and the .bin file of the key come from the same
\* one of the two writes: a write whose .bin file is written last, over the
\* complete entry of the other write and with no other file operation of the
\* key under way, leaves metadata and body of one fetch result.
C14_LastWriteWinsWhole ==
    [][\A s \in Slots :
        LET ck == loc[s].ck
            Whole(f) == /\ f.json # None /\ f.bin # None
                        /\ \E r \in FetchResults200 :
                             r.headers = f.json[1].headers /\ r.buffer = f.bin[1]
        IN  (/\ pc[s] = "wr_bin" /\ pc'[s] = "idle"
             /\ disk'[ck].bin = loc[s].buffer
             /\ Whole(disk[ck])
             /\ \A t \in Slots \ {s} :
                  loc[t].ck = ck =>
                    pc[t] \notin {"wr_json", "wr_bin", "rd_unlink_json", "rd_unlink_bin"})
            => Whole(disk'[ck])]_vars

\* C15: a readFileCache that overlaps a writeFileCache of the same key returns
\* null, or headers and a body that belong to one completed write, never the
\* metadata of one write with the body of another: a read whose .bin read
\* finds the complete entry of one write on disk returns the headers and the
\* body of one fetch result.
C15_ReadNeverTorn ==
    [][\A s \in Slots :
        LET f == disk[loc[s].ck]
        IN  (/\ pc[s] = "rd_bin" /\ pc'[s] = "rd_hit"
             /\ f.json # None /\ f.bin # None
             /\ \E r \in FetchResults200 :
                  r.headers = f.json[1].headers /\ r.buffer = f.bin[1])
            => \E r \in FetchResults200 :
                  /\ r.headers = loc'[s].meta[1].headers
                  /\ r.buffer = loc'[s].buffer[1]]_vars

\* C16: readFileCache returns an entry only if the stored expiry is strictly
\* later than the current time: when its expiry test finds expires <= now,
\* the instant expires = now included, it does not go on to read the .bin file.
C16_DiskEntryServedOnlyBeforeExpiry ==
    [][\A s \in Slots :
        (pc[s] = "rd_check" /\ pc'[s] = "rd_bin") => loc[s].meta[1].expires > now]_vars

\* C17: on the 200 path the response is sent without waiting for the file
\* write: when the fetch has returned 200 the response is there while
\* writeFileCache has written nothing yet, and it goes out with the write
\* still pending, whether the write then succeeds, fails or never completes.
C17_ResponseBeforeWrite ==
    /\ [](\A s \in Slots :
            (gh[s].out # None /\ gh[s].out[1].status = 200) =>
                /\ resp[s] # None
                /\ resp[s][1].status = 200
                /\ resp[s][1].body = gh[s].out[1].buffer
                /\ pc[s] = "wr_json")
    /\ [][\A s \in Slots :
            (resp[s] # None /\ pc[s] = "wr_json") =>
                (resp'[s] = None /\ pc'[s] = "wr_json" /\ UNCHANGED disk)]_vars

\* C17, witness: the response to a 200 fetch has been sent and no file of the
\* key is on disk.
C17_Witness ==
    \E s \in Slots :
        /\ resp[s] # None /\ pc[s] = "wr_json"
        /\ gh[s].out # None /\ gh[s].out[1].status = 200
        /\ disk[loc[s].ck] = NoFiles

\* C18: the lazy deletion of a readFileCache that saw expired metadata never
\* removes files a concurrent writeFileCache of a fresh 200 result has
\* written, and once both are over the fresh entry is complete on disk: while
\* an instance is deleting, a step leaves the key's .json file in place when
\* it holds unexpired metadata, and its .bin file too when no write of the
\* key is under way; and a fresh write that writes its .bin file with no other
\* file operation of the key under way leaves its .json file on disk.
C18_LazyDeleteSparesFreshWrite ==
    [][\A s \in Slots :
        LET ck == loc[s].ck
            others == { t \in Slots \ {s} : loc[t].ck = ck }
        IN  /\ (/\ pc[s] \in {"rd_unlink_json", "rd_unlink_bin"}
                /\ disk[ck].json # None
                /\ disk[ck].json[1].expires > now) =>
                  /\ disk'[ck].json # None
                  /\ (/\ disk[ck].bin # None
                      /\ \A t \in others : pc[t] \notin {"wr_json", "wr_bin"}) =>
                        disk'[ck].bin # None
            /\ (/\ pc[s] = "wr_bin" /\ pc'[s] = "idle"
                /\ disk'[ck].bin = loc[s].buffer
                /\ loc[s].meta[1].expires > now
                /\ \A t \in others :
                     pc[t] \notin {"wr_json", "wr_bin", "rd_unlink_json", "rd_unlink_bin"}) =>
                  disk'[ck].json # None]_vars

\* C19: a response served from the memory cache or from the file cache for K
\* carries the same headers, cache-control included, and the same body as the
\* 200 response sent to the caller of the fetch that stored the entry, also
\* when upstream gave no cache-control and the default one was added.  Stated
\* for a memory hit on the entry the last 200 fetch stored, and for a file hit
\* that returns the body of the last 200 fetch within its TTL.
C19_CacheHitSameHeaders ==
    \A s \in Slots :
        (/\ resp[s] # None /\ gh[s].target = "allowed"
         /\ last200[loc[s].ck] # None
         /\ \/ gh[s].ops = {"memget"} /\ gh[s].kept
            \/ /\ gh[s].ops = {"memget", "diskread", "memset"}
               /\ resp[s][1].body = last200[loc[s].ck][1].buffer) =>
            /\ resp[s][1].body = last200[loc[s].ck][1].buffer
            /\ resp[s][1].headers = last200[loc[s].ck][1].sent

\* C20: right after the handler has inserted the result of a 200 fetch for K
\* into the memory cache and applied the trim, the memory cache holds an
\* unexpired entry for K with the headers and the body of that result: the
\* trim never removes the entry just inserted.
C20_InsertedEntrySurvivesTrim ==
    \A s \in Slots :
        (resp[s] # None /\ gh[s].out # None /\ gh[s].out[1].status = 200) =>
            LET e == MemGet(memCache, loc[s].ck)
            IN  /\ e # None
                /\ e[1].headers = gh[s].out[1].headers
                /\ e[1].buffer = gh[s].out[1].buffer
                /\ e[1].expires > now

====
